---------------------------- MODULE Spec2Model ----------------------------
(***************************************************************************)
(* A model of the jobly backend: the partial-update SQL builder, the       *)
(* per-entity filter builders, the Job and Company model methods that use  *)
(* them against the data layer, the JWT authorization middleware, and the  *)
(* two routes that register users.                                         *)
(*                                                                         *)
(* SQL text is modelled as a sequence of string tokens whose concatenation *)
(* (Render) is the text the code builds; a positional placeholder "$n" is  *)
(* always one token, so the placeholders of a statement can be read back   *)
(* from the statement itself.                                              *)
(***************************************************************************)
EXTENDS Integers, Sequences, FiniteSets, Bags, TLC

VARIABLES
  companies,    \* rows of the companies table
  jobs,         \* rows of the jobs table
  updateCall,   \* the most recent call of sqlForPartialUpdate or of an update / remove method
  filterCall,   \* the most recent call of a _filterWhereBuilder / findAll
  procs,        \* the Company.create / Job.create calls in flight, one per caller
  req,          \* the HTTP request the server is running
  users,        \* rows of the users table
  registerCall, \* the most recent request to a route on users
  parked        \* the bag of requests whose handler waits at an await

vars == <<companies, jobs, updateCall, filterCall, procs, req, users, registerCall, parked>>

----------------------------------------------------------------------------
(* Bounds of the model. *)

\* Largest number of keys of an update object.
MaxKeys == 2

\* Largest employee count a search names.
MaxEmployees == 2

\* Number of callers whose create calls, and of requests whose handlers, may
\* be in flight at once.
NumCallers == 2

----------------------------------------------------------------------------
(* JavaScript values: a tagged record, so that values of different JS      *)
(* types can be compared.                                                  *)

Undefined == [t |-> "undefined", n |-> 0, s |-> "", b |-> FALSE]
Null == [t |-> "null", n |-> 0, s |-> "", b |-> FALSE]
Num(k) == [t |-> "number", n |-> k, s |-> "", b |-> FALSE]
Str(x) == [t |-> "string", n |-> 0, s |-> x, b |-> FALSE]
Bool(x) == [t |-> "boolean", n |-> 0, s |-> "", b |-> x]
NaN == [t |-> "number", n |-> 0, s |-> "NaN", b |-> FALSE]

\* A built-in function, with the text String() gives for it.
Fn(name) ==
  [t |-> "function", n |-> 0,
   s |-> "function " \o name \o "() { [native code] }", b |-> FALSE]

\* A plain object, as far as String() and ToBoolean see it.
PlainObject == [t |-> "object", n |-> 0, s |-> "[object Object]", b |-> FALSE]

\* String(v), as a template literal `${v}` converts v.
JsToString(v) ==
  CASE v.t = "undefined" -> "undefined"
    [] v.t = "null" -> "null"
    [] v.t = "number" -> IF v = NaN THEN "NaN" ELSE ToString(v.n)
    [] v.t = "string" -> v.s
    [] v.t = "boolean" -> IF v.b THEN "true" ELSE "false"
    [] v.t \in {"function", "object"} -> v.s

\* Whether v is truthy (ToBoolean).
Truthy(v) ==
  CASE v.t = "undefined" -> FALSE
    [] v.t = "null" -> FALSE
    [] v.t = "number" -> v # NaN /\ v.n # 0
    [] v.t = "string" -> v.s # ""
    [] v.t = "boolean" -> v.b
    [] v.t \in {"function", "object"} -> TRUE

\* ToNumber(v), for the types a relational comparison of the model meets.
ToNumber(v) ==
  CASE v.t = "undefined" -> NaN
    [] v.t = "null" -> Num(0)
    [] v.t = "number" -> v
    [] v.t = "boolean" -> IF v.b THEN Num(1) ELSE Num(0)

\* a > b for operands that are not both strings: both are converted to
\* numbers, and a comparison with NaN is false.
JsGreater(a, b) ==
  LET x == ToNumber(a)
      y == ToNumber(b)
  IN  x # NaN /\ y # NaN /\ x.n > y.n

----------------------------------------------------------------------------
(* SQL text. *)

\* The placeholder `$n`.
Ph(n) == "$" \o ToString(n)

Digits == <<"0", "1", "2", "3", "4", "5", "6", "7", "8", "9">>

IsDigit(c) == \E d \in 1..Len(Digits) : Digits[d] = c

\* The number a string of decimal digits writes.
RECURSIVE ParseNat(_)
ParseNat(str) ==
  IF Len(str) = 0 THEN 0
  ELSE 10 * ParseNat(SubSeq(str, 1, Len(str) - 1))
         + (CHOOSE d \in 1..Len(Digits) :
              Digits[d] = SubSeq(str, Len(str), Len(str))) - 1

\* Whether the token is a placeholder: "$" followed by digits.
IsPlaceholder(tok) ==
  /\ Len(tok) >= 2
  /\ SubSeq(tok, 1, 1) = "$"
  /\ \A i \in 2..Len(tok) : IsDigit(SubSeq(tok, i, i))

\* The index a placeholder names.
PhIndex(tok) == ParseNat(SubSeq(tok, 2, Len(tok)))

\* The placeholder tokens of a text, left to right.
Placeholders(text) == SelectSeq(text, IsPlaceholder)

\* The text as the string the code builds.
RECURSIVE Render(_)
Render(text) ==
  IF text = <<>> THEN "" ELSE Head(text) \o Render(Tail(text))

\* parts.join(sep), for parts that are texts.
RECURSIVE Join(_, _)
Join(parts, sep) ==
  IF parts = <<>> THEN <<>>
  ELSE IF Len(parts) = 1 THEN parts[1]
  ELSE parts[1] \o <<sep>> \o Join(Tail(parts), sep)

----------------------------------------------------------------------------
(* Objects: the own enumerable properties in the order Object.keys lists   *)
(* them (insertion order for the non-numeric keys used here), as a         *)
(* sequence of [key, val] with distinct keys.                              *)

ObjKeys(obj) == [i \in 1..Len(obj) |-> obj[i].key]

ObjValues(obj) == [i \in 1..Len(obj) |-> obj[i].val]

HasOwn(obj, k) == \E i \in 1..Len(obj) : obj[i].key = k

\* The properties every object literal inherits from Object.prototype:
\* its methods, the constructor Object, and the accessor __proto__, which
\* reads as Object.prototype itself.
ObjectPrototype ==
  {[key |-> "constructor", val |-> Fn("Object")],
   [key |-> "__proto__", val |-> PlainObject]}
    \cup {[key |-> m, val |-> Fn(m)] :
            m \in {"toString", "toLocaleString", "valueOf", "hasOwnProperty",
                   "isPrototypeOf", "propertyIsEnumerable",
                   "__defineGetter__", "__defineSetter__",
                   "__lookupGetter__", "__lookupSetter__"}}

\* obj[k]: the own property, else the inherited one, else undefined.
JsGet(obj, k) ==
  IF HasOwn(obj, k)
  THEN obj[CHOOSE i \in 1..Len(obj) : obj[i].key = k].val
  ELSE IF \E p \in ObjectPrototype : p.key = k
  THEN (CHOOSE p \in ObjectPrototype : p.key = k).val
  ELSE Undefined

----------------------------------------------------------------------------
(* helpers/sql.js *)

\* The result of a call: what it returned, or the error it threw.
Threw(kind, message) ==
  [err |-> kind, msg |-> message, setCols |-> <<>>, values |-> <<>>]

\* The mutant of sqlForPartialUpdate below that numbers placeholders from 0.
sqlForPartialUpdateZeroBased(dataToUpdate, jsToSql) ==
  LET keys == ObjKeys(dataToUpdate)
      cols == [idx \in 1..Len(keys) |->
                 <<"\"", JsToString(IF Truthy(JsGet(jsToSql, keys[idx]))
                                    THEN JsGet(jsToSql, keys[idx])
                                    ELSE Str(keys[idx])), "\"", "=", Ph(idx - 1)>>]
  IN  IF Len(keys) = 0 THEN Threw("BadRequestError", "No data")
      ELSE [err |-> "", msg |-> "",
            setCols |-> Join(cols, ", "),
            values |-> ObjValues(dataToUpdate)]

\* The mutant of sqlForPartialUpdate below without the empty-object check.
sqlForPartialUpdateNoCheck(dataToUpdate, jsToSql) ==
  LET keys == ObjKeys(dataToUpdate)
      cols == [idx \in 1..Len(keys) |->
                 <<"\"", JsToString(IF Truthy(JsGet(jsToSql, keys[idx]))
                                    THEN JsGet(jsToSql, keys[idx])
                                    ELSE Str(keys[idx])), "\"", "=", Ph(idx)>>]
  IN  [err |-> "", msg |-> "",
       setCols |-> Join(cols, ", "),
       values |-> ObjValues(dataToUpdate)]

\* sqlForPartialUpdate(dataToUpdate, jsToSql). The map callback's idx is
\* 0-based and the sequence index here 1-based: `$${idx + 1}` is Ph(idx).
sqlForPartialUpdate(dataToUpdate, jsToSql) ==
  LET keys == ObjKeys(dataToUpdate)
      cols == [idx \in 1..Len(keys) |->
                 <<"\"", JsToString(IF Truthy(JsGet(jsToSql, keys[idx]))
                                    THEN JsGet(jsToSql, keys[idx])
                                    ELSE Str(keys[idx])), "\"", "=", Ph(idx)>>]
  IN  IF Len(keys) = 0 THEN Threw("BadRequestError", "No data")
      ELSE [err |-> "", msg |-> "",
            setCols |-> Join(cols, ", "),
            values |-> ObjValues(dataToUpdate)]

----------------------------------------------------------------------------
(* The data layer: db.query(text, params) against the two tables.  A       *)
(* statement is its text and its positional values; the store binds        *)
(* placeholder $i to params[i].                                            *)

Statement(text, params) == [text |-> text, params |-> params]

JobColumns == {"id", "title", "salary", "equity", "company_handle"}

CompanyColumns == {"handle", "name", "description", "num_employees", "logo_url"}

\* The columns of type INTEGER or SERIAL.
IntegerColumns == {"id", "salary", "num_employees"}

\* Whether the store accepts v as a value of the column: a string bound to
\* an integer column has to write an integer.
DbCastable(col, v) ==
  (col \in IntegerColumns /\ v.t = "string") =>
    (Len(v.s) > 0 /\ \A i \in 1..Len(v.s) : IsDigit(SubSeq(v.s, i, i)))

\* The value the store compares or stores for v in the column: a string
\* bound to an integer column is read as the integer it writes.
DbCast(col, v) ==
  IF col \in IntegerColumns /\ v.t = "string" THEN Num(ParseNat(v.s)) ELSE v

\* The index of the first token of text equal to tok (0 when there is none).
IndexOf(text, tok) ==
  IF \E i \in 1..Len(text) : text[i] = tok
  THEN CHOOSE i \in 1..Len(text) :
         text[i] = tok /\ \A j \in 1..(i - 1) : text[j] # tok
  ELSE 0

\* The assignments of the SET list of an UPDATE statement whose WHERE
\* token stands at position w: clause k is the five tokens
\* " col " = $i, and clauses are separated by one ", " token.
SetClauses(text, w) ==
  LET setToks == SubSeq(text, 2, w - 1)
  IN  [k \in 1..((Len(setToks) + 1) \div 6) |->
         [col |-> setToks[6 * (k - 1) + 2], ph |-> setToks[6 * (k - 1) + 5]]]

\* UPDATE <table> SET ... WHERE <keyCol> = $k RETURNING ..., run on rows:
\* whereTok is the statement's " WHERE <keyCol> = " token.  The store refuses
\* a statement with an empty SET list, one naming a column the table does not
\* have, one with a placeholder that has no value, or one with a value its
\* column cannot take; otherwise every row whose key column equals the
\* bound key value gets the assigned columns, and the changed rows are
\* returned.
DbUpdate(rows, columns, keyCol, whereTok, stmt) ==
  LET w == IndexOf(stmt.text, whereTok)
      clauses == SetClauses(stmt.text, w)
      keyPh == stmt.text[w + 1]
      bound(ph) == IsPlaceholder(ph) /\ PhIndex(ph) <= Len(stmt.params)
      valueOf(ph) == stmt.params[PhIndex(ph)]
      assigned(c) == \E k \in 1..Len(clauses) : clauses[k].col = c
      newValue(c) ==
        DbCast(c, valueOf(clauses[CHOOSE k \in 1..Len(clauses) :
                                    clauses[k].col = c].ph))
      hit(r) == r[keyCol] = DbCast(keyCol, valueOf(keyPh))
      changed(r) == [c \in columns |-> IF assigned(c) THEN newValue(c) ELSE r[c]]
  IN  IF \/ Len(clauses) = 0
         \/ ~bound(keyPh)
         \/ \E k \in 1..Len(clauses) :
              clauses[k].col \notin columns \/ ~bound(clauses[k].ph)
         \/ ~DbCastable(keyCol, valueOf(keyPh))
         \/ \E k \in 1..Len(clauses) :
              ~DbCastable(clauses[k].col, valueOf(clauses[k].ph))
      THEN [err |-> "DatabaseError", rows |-> rows, returned |-> {}]
      ELSE [err |-> "",
            rows |-> {IF hit(r) THEN changed(r) ELSE r : r \in rows},
            returned |-> {changed(r) : r \in {x \in rows : hit(x)}}]

----------------------------------------------------------------------------
(* models/job.js and models/company.js: update *)

\* A call of the update family, as the state keeps it: its inputs, the SET
\* list and values the builder gave, the statements it sent to db.query, the
\* rows the last statement returned and the error it ended with ("" if none).
UpdateCall(op, key, data, jsToSql, built, queries, returned, err, msg) ==
  [op |-> op, key |-> key, data |-> data, jsToSql |-> jsToSql,
   setCols |-> built.setCols, values |-> built.values,
   queries |-> queries, returned |-> returned, err |-> err, msg |-> msg]

NoUpdateCall ==
  UpdateCall("none", Undefined, <<>>, <<>>, Threw("", ""), <<>>, {}, "", "")

JobWhere == " WHERE id = "

JobReturning ==
  " RETURNING id, title, salary, equity, company_handle AS \"companyHandle\""

\* Job.update's jsToSql: {}.
JobColumnMap == <<>>

\* The mutant of Job.update below that numbers the id placeholder by the
\* number of update values instead of one past it.
JobUpdateResultSharedIndex(rows, id, data) ==
  LET built == sqlForPartialUpdate(data, JobColumnMap)
      idVarIdx == Ph(Len(built.values))
      querySql == <<"UPDATE jobs SET ">> \o built.setCols
                    \o <<JobWhere, idVarIdx, JobReturning>>
      stmt == Statement(querySql, built.values \o <<id>>)
      result == DbUpdate(rows, JobColumns, "id", JobWhere, stmt)
      call(queries, returned, err, msg) ==
        UpdateCall("Job.update", id, data, JobColumnMap, built,
                   queries, returned, err, msg)
  IN  IF built.err # ""
      THEN [call |-> call(<<>>, {}, built.err, built.msg), rows |-> rows]
      ELSE IF result.err # ""
      THEN [call |-> call(<<stmt>>, {}, result.err, ""), rows |-> result.rows]
      ELSE IF result.returned = {}
      THEN [call |-> call(<<stmt>>, {}, "NotFoundError",
                          "No job: " \o JsToString(id)),
            rows |-> result.rows]
      ELSE [call |-> call(<<stmt>>, result.returned, "", ""), rows |-> result.rows]

\* Job.update(id, data): the call as it ends and the jobs table it leaves.
JobUpdateResult(rows, id, data) ==
  LET built == sqlForPartialUpdate(data, JobColumnMap)
      idVarIdx == Ph(Len(built.values) + 1)
      querySql == <<"UPDATE jobs SET ">> \o built.setCols
                    \o <<JobWhere, idVarIdx, JobReturning>>
      stmt == Statement(querySql, built.values \o <<id>>)
      result == DbUpdate(rows, JobColumns, "id", JobWhere, stmt)
      call(queries, returned, err, msg) ==
        UpdateCall("Job.update", id, data, JobColumnMap, built,
                   queries, returned, err, msg)
  IN  IF built.err # ""
      THEN [call |-> call(<<>>, {}, built.err, built.msg), rows |-> rows]
      ELSE IF result.err # ""
      THEN [call |-> call(<<stmt>>, {}, result.err, ""), rows |-> result.rows]
      ELSE IF result.returned = {}
      THEN [call |-> call(<<stmt>>, {}, "NotFoundError",
                          "No job: " \o JsToString(id)),
            rows |-> result.rows]
      ELSE [call |-> call(<<stmt>>, result.returned, "", ""), rows |-> result.rows]

CompanyWhere == " WHERE handle = "

CompanyReturning ==
  " RETURNING handle, name, description, num_employees AS \"numEmployees\", logo_url AS \"logoUrl\""

\* Company.update's jsToSql.
CompanyColumnMap ==
  <<[key |-> "numEmployees", val |-> Str("num_employees")],
    [key |-> "logoUrl", val |-> Str("logo_url")]>>

\* Company.update(handle, data): the call as it ends and the companies
\* table it leaves.
CompanyUpdateResult(rows, handle, data) ==
  LET built == sqlForPartialUpdate(data, CompanyColumnMap)
      handleVarIdx == Ph(Len(built.values) + 1)
      querySql == <<"UPDATE companies SET ">> \o built.setCols
                    \o <<CompanyWhere, handleVarIdx, CompanyReturning>>
      stmt == Statement(querySql, built.values \o <<handle>>)
      result == DbUpdate(rows, CompanyColumns, "handle", CompanyWhere, stmt)
      call(queries, returned, err, msg) ==
        UpdateCall("Company.update", handle, data, CompanyColumnMap, built,
                   queries, returned, err, msg)
  IN  IF built.err # ""
      THEN [call |-> call(<<>>, {}, built.err, built.msg), rows |-> rows]
      ELSE IF result.err # ""
      THEN [call |-> call(<<stmt>>, {}, result.err, ""), rows |-> result.rows]
      ELSE IF result.returned = {}
      THEN [call |-> call(<<stmt>>, {}, "NotFoundError",
                          "No company: " \o JsToString(handle)),
            rows |-> result.rows]
      ELSE [call |-> call(<<stmt>>, result.returned, "", ""), rows |-> result.rows]

----------------------------------------------------------------------------
(* models/job.js and models/company.js: remove *)

\* DELETE FROM <table> WHERE <keyCol> = $1 RETURNING <keyCol>, run on rows:
\* the statement's second token is the key placeholder.  The rows whose key
\* column equals the bound value are deleted and their keys returned.
DbDelete(rows, keyCol, stmt) ==
  LET keyPh == stmt.text[2]
      bound == IsPlaceholder(keyPh) /\ PhIndex(keyPh) <= Len(stmt.params)
      hit(r) == r[keyCol] = DbCast(keyCol, stmt.params[PhIndex(keyPh)])
  IN  IF ~bound \/ ~DbCastable(keyCol, stmt.params[PhIndex(keyPh)])
      THEN [err |-> "DatabaseError", rows |-> rows, returned |-> {}]
      ELSE [err |-> "",
            rows |-> {r \in rows : ~hit(r)},
            returned |-> {[c \in {keyCol} |-> r[keyCol]] : r \in {x \in rows : hit(x)}}]

\* The jobs left once the companies table holds companyRows: a job row
\* references its company and goes with it.
DbCascadeJobs(jobRows, companyRows) ==
  {j \in jobRows : \E c \in companyRows : c.handle = j.company_handle}

\* A remove call, as the state keeps it: it has no update object.
RemoveCall(op, key, queries, returned, err, msg) ==
  UpdateCall(op, key, <<>>, <<>>, Threw("", ""), queries, returned, err, msg)

JobDelete == <<"DELETE FROM jobs WHERE id = ", Ph(1), " RETURNING id">>

\* The mutant of Job.remove below that does not look at the returned row.
JobRemoveResultNoCheck(rows, id) ==
  LET stmt == Statement(JobDelete, <<id>>)
      result == DbDelete(rows, "id", stmt)
  IN  [call |-> RemoveCall("Job.remove", id, <<stmt>>, result.returned,
                           result.err, ""),
       rows |-> result.rows]

\* Job.remove(id): the call as it ends and the jobs table it leaves.
JobRemoveResult(rows, id) ==
  LET stmt == Statement(JobDelete, <<id>>)
      result == DbDelete(rows, "id", stmt)
      call(returned, err, msg) ==
        RemoveCall("Job.remove", id, <<stmt>>, returned, err, msg)
  IN  IF result.err # ""
      THEN [call |-> call({}, result.err, ""), rows |-> result.rows]
      ELSE IF result.returned = {}
      THEN [call |-> call({}, "NotFoundError", "No job: " \o JsToString(id)),
            rows |-> result.rows]
      ELSE [call |-> call(result.returned, "", ""), rows |-> result.rows]

CompanyDelete ==
  <<"DELETE FROM companies WHERE handle = ", Ph(1), " RETURNING handle">>

\* Company.remove(handle): the call as it ends and the companies table it
\* leaves.
CompanyRemoveResult(rows, handle) ==
  LET stmt == Statement(CompanyDelete, <<handle>>)
      result == DbDelete(rows, "handle", stmt)
      call(returned, err, msg) ==
        RemoveCall("Company.remove", handle, <<stmt>>, returned, err, msg)
  IN  IF result.err # ""
      THEN [call |-> call({}, result.err, ""), rows |-> result.rows]
      ELSE IF result.returned = {}
      THEN [call |-> call({}, "NotFoundError",
                          "No company: " \o JsToString(handle)),
            rows |-> result.rows]
      ELSE [call |-> call(result.returned, "", ""), rows |-> result.rows]

----------------------------------------------------------------------------
(* Inputs of the update family. *)

\* The sequences of at most n distinct elements of S.
DistinctSeqs(S, n) ==
  {q \in UNION {[1..k -> S] : k \in 0..n} :
     \A i, j \in 1..Len(q) : i # j => q[i] # q[j]}

\* A value for an update key: a number for the numeric fields, else a
\* string; variant tells two values of the same key apart.
NewValue(k, variant) ==
  IF k \in {"salary", "numEmployees"} THEN Num(variant + 1)
  ELSE Str(k \o "-" \o ToString(variant))

\* The update objects with at most MaxKeys keys out of keySet.
UpdateObjects(keySet, variants) ==
  {[i \in 1..Len(ks) |-> [key |-> ks[i], val |-> NewValue(ks[i], v)]] :
     ks \in DistinctSeqs(keySet, MaxKeys), v \in variants}

\* Keys and column maps sqlForPartialUpdate is called with directly: a
\* mapped key, an unmapped key, two keys Object.prototype defines, and maps
\* with no entry, with entries, and with an entry that is the empty string.
DirectKeys == {"name", "numEmployees", "constructor", "toString"}

DirectColumnMaps ==
  {JobColumnMap, CompanyColumnMap,
   <<[key |-> "name", val |-> Str("")],
     [key |-> "numEmployees", val |-> Str("num_employees")]>>}

\* Fields Job.update and Company.update are called with.
JobUpdateKeys == {"title", "salary"}

CompanyUpdateKeys == {"name", "numEmployees", "logoUrl"}

JobIds == {Num(1), Num(2)}

\* req.params.id of a request to /jobs/:id: the path segment, a string.
JobIdParams == {Str("1"), Str("2")}

Handles == {Str("c1"), Str("c2")}

----------------------------------------------------------------------------
(* The initial state: one company with one job; no call made. *)

CompanyRow(handle, name, description, numEmployees, logoUrl) ==
  [handle |-> handle, name |-> name, description |-> description,
   num_employees |-> numEmployees, logo_url |-> logoUrl]

JobRow(id, title, salary, equity, companyHandle) ==
  [id |-> id, title |-> title, salary |-> salary, equity |-> equity,
   company_handle |-> companyHandle]

InitCompanies ==
  {CompanyRow(Str("c1"), Str("C1"), Str("Desc1"), Num(1), Str("http://c1.img"))}

InitJobs == {JobRow(Num(1), Str("j1"), Num(1), Str("0.1"), Str("c1"))}

----------------------------------------------------------------------------
(* The update family's actions. *)

\* A direct call of sqlForPartialUpdate(dataToUpdate, jsToSql).
SqlForPartialUpdateCall ==
  \E jsToSql \in DirectColumnMaps :
    \E dataToUpdate \in UpdateObjects(DirectKeys, {1}) :
      LET built == sqlForPartialUpdate(dataToUpdate, jsToSql)
      IN  /\ updateCall' = UpdateCall("sqlForPartialUpdate", Undefined,
                                      dataToUpdate, jsToSql, built,
                                      <<>>, {}, built.err, built.msg)
          /\ UNCHANGED <<parked, users, registerCall, companies, jobs, filterCall, procs, req>>

\* Job.update(id, data).
JobUpdate ==
  \E id \in JobIds :
    \E data \in UpdateObjects(JobUpdateKeys, {1}) :
      LET r == JobUpdateResult(jobs, id, data)
      IN  /\ updateCall' = r.call
          /\ jobs' = r.rows
          /\ UNCHANGED <<parked, users, registerCall, companies, filterCall, procs, req>>

\* Company.update(handle, data).
CompanyUpdate ==
  \E handle \in Handles :
    \E data \in UpdateObjects(CompanyUpdateKeys, {1}) :
      LET r == CompanyUpdateResult(companies, handle, data)
      IN  /\ updateCall' = r.call
          /\ companies' = r.rows
          /\ UNCHANGED <<parked, users, registerCall, jobs, filterCall, procs, req>>

\* Job.remove(id).
JobRemove ==
  \E id \in JobIds :
    LET r == JobRemoveResult(jobs, id)
    IN  /\ updateCall' = r.call
        /\ jobs' = r.rows
        /\ UNCHANGED <<parked, users, registerCall, companies, filterCall, procs, req>>

\* Company.remove(handle).
CompanyRemove ==
  \E handle \in Handles :
    LET r == CompanyRemoveResult(companies, handle)
    IN  /\ updateCall' = r.call
        /\ companies' = r.rows
        /\ jobs' = DbCascadeJobs(jobs, r.rows)
        /\ UNCHANGED <<parked, users, registerCall, filterCall, procs, req>>

----------------------------------------------------------------------------
(* models/job.js and models/company.js: search filters *)

\* What a filter builder returns.
Filter(where, vals) == [where |-> where, vals |-> vals]

\* The mutant of JobFilterWhereBuilder below that tests hasEquity for
\* truthiness instead of identity with true.
JobFilterWhereBuilderTruthy(minSalary, hasEquity, title) ==
  LET vals1 == IF minSalary # Undefined THEN <<minSalary>> ELSE <<>>
      parts1 == IF minSalary # Undefined
                THEN <<<<"salary >= ", Ph(Len(vals1))>>>> ELSE <<>>
      parts2 == IF Truthy(hasEquity)
                THEN Append(parts1, <<"equity > 0">>) ELSE parts1
      vals3 == IF title # Undefined
               THEN Append(vals1, Str("%" \o JsToString(title) \o "%"))
               ELSE vals1
      parts3 == IF title # Undefined
                THEN Append(parts2, <<"title ILIKE ", Ph(Len(vals3))>>)
                ELSE parts2
  IN  Filter(IF Len(parts3) > 0
             THEN <<"WHERE ">> \o Join(parts3, " AND ") ELSE <<>>,
             vals3)

\* The mutant of JobFilterWhereBuilder below that numbers the title
\* placeholder by the count of predicates instead of the count of values.
JobFilterWhereBuilderByParts(minSalary, hasEquity, title) ==
  LET vals1 == IF minSalary # Undefined THEN <<minSalary>> ELSE <<>>
      parts1 == IF minSalary # Undefined
                THEN <<<<"salary >= ", Ph(Len(vals1))>>>> ELSE <<>>
      parts2 == IF hasEquity = Bool(TRUE)
                THEN Append(parts1, <<"equity > 0">>) ELSE parts1
      vals3 == IF title # Undefined
               THEN Append(vals1, Str("%" \o JsToString(title) \o "%"))
               ELSE vals1
      parts3 == IF title # Undefined
                THEN Append(parts2, <<"title ILIKE ", Ph(Len(parts2) + 1)>>)
                ELSE parts2
  IN  Filter(IF Len(parts3) > 0
             THEN <<"WHERE ">> \o Join(parts3, " AND ") ELSE <<>>,
             vals3)

\* Job._filterWhereBuilder({ minSalary, hasEquity, title }).
JobFilterWhereBuilder(minSalary, hasEquity, title) ==
  LET vals1 == IF minSalary # Undefined THEN <<minSalary>> ELSE <<>>
      parts1 == IF minSalary # Undefined
                THEN <<<<"salary >= ", Ph(Len(vals1))>>>> ELSE <<>>
      parts2 == IF hasEquity = Bool(TRUE)
                THEN Append(parts1, <<"equity > 0">>) ELSE parts1
      vals3 == IF title # Undefined
               THEN Append(vals1, Str("%" \o JsToString(title) \o "%"))
               ELSE vals1
      parts3 == IF title # Undefined
                THEN Append(parts2, <<"title ILIKE ", Ph(Len(vals3))>>)
                ELSE parts2
  IN  Filter(IF Len(parts3) > 0
             THEN <<"WHERE ">> \o Join(parts3, " AND ") ELSE <<>>,
             vals3)

\* The mutant of CompanyFilterWhereBuilder below that tests nameLike for
\* being defined instead of being truthy.
CompanyFilterWhereBuilderNameDefined(minEmployees, maxEmployees, nameLike) ==
  LET vals1 == IF minEmployees # Undefined THEN <<minEmployees>> ELSE <<>>
      parts1 == IF minEmployees # Undefined
                THEN <<<<"num_employees >= ", Ph(Len(vals1))>>>> ELSE <<>>
      vals2 == IF maxEmployees # Undefined
               THEN Append(vals1, maxEmployees) ELSE vals1
      parts2 == IF maxEmployees # Undefined
                THEN Append(parts1, <<"num_employees <= ", Ph(Len(vals2))>>)
                ELSE parts1
      vals3 == IF nameLike # Undefined
               THEN Append(vals2, Str("%" \o JsToString(nameLike) \o "%"))
               ELSE vals2
      parts3 == IF nameLike # Undefined
                THEN Append(parts2, <<"name ILIKE ", Ph(Len(vals3))>>)
                ELSE parts2
  IN  Filter(IF Len(parts3) > 0
             THEN <<"WHERE ">> \o Join(parts3, " AND ") ELSE <<>>,
             vals3)

\* Company._filterWhereBuilder({ minEmployees, maxEmployees, nameLike }).
CompanyFilterWhereBuilder(minEmployees, maxEmployees, nameLike) ==
  LET vals1 == IF minEmployees # Undefined THEN <<minEmployees>> ELSE <<>>
      parts1 == IF minEmployees # Undefined
                THEN <<<<"num_employees >= ", Ph(Len(vals1))>>>> ELSE <<>>
      vals2 == IF maxEmployees # Undefined
               THEN Append(vals1, maxEmployees) ELSE vals1
      parts2 == IF maxEmployees # Undefined
                THEN Append(parts1, <<"num_employees <= ", Ph(Len(vals2))>>)
                ELSE parts1
      vals3 == IF Truthy(nameLike)
               THEN Append(vals2, Str("%" \o JsToString(nameLike) \o "%"))
               ELSE vals2
      parts3 == IF Truthy(nameLike)
                THEN Append(parts2, <<"name ILIKE ", Ph(Len(vals3))>>)
                ELSE parts2
  IN  Filter(IF Len(parts3) > 0
             THEN <<"WHERE ">> \o Join(parts3, " AND ") ELSE <<>>,
             vals3)

\* A call of the filter family, as the state keeps it: its criteria, how
\* many times it invoked its filter builder, what the builder gave, the
\* statements it sent to db.query and the error it ended with.
FilterCall(op, searchFilters, builderCalls, built, queries, err, msg) ==
  [op |-> op, searchFilters |-> searchFilters, builderCalls |-> builderCalls,
   where |-> built.where, vals |-> built.vals,
   queries |-> queries, err |-> err, msg |-> msg]

NoFilterCall ==
  FilterCall("none", [none |-> Undefined], 0, Filter(<<>>, <<>>), <<>>, "", "")

JobSelect ==
  "SELECT j.id, j.title, j.salary, j.equity, j.company_handle AS \"companyHandle\", c.name AS \"companyName\" FROM jobs j LEFT JOIN companies AS c ON c.handle = j.company_handle "

\* Job.findAll(searchFilters): the call as it ends.  The statement is a
\* SELECT: it changes no row, and the rows it returns are not modelled.
JobFindAllResult(searchFilters) ==
  LET built == JobFilterWhereBuilder(searchFilters.minSalary,
                                     searchFilters.hasEquity,
                                     searchFilters.title)
      stmt == Statement(<<JobSelect>> \o built.where, built.vals)
  IN  FilterCall("Job.findAll", searchFilters, 1, built, <<stmt>>, "", "")

CompanySelect ==
  "SELECT handle, name, description, num_employees AS \"numEmployees\", logo_url AS \"logoUrl\" FROM companies "

\* The mutant of MinGreaterThanMax below that also rejects equal bounds.
MinGreaterOrEqualMax(minEmployees, maxEmployees) ==
  JsGreater(minEmployees, maxEmployees) \/ minEmployees = maxEmployees

\* Company.findAll's cross-field check: minEmployees > maxEmployees.
MinGreaterThanMax(minEmployees, maxEmployees) ==
  JsGreater(minEmployees, maxEmployees)

\* Company.findAll(searchFilters): the call as it ends.
CompanyFindAllResult(searchFilters) ==
  LET built == CompanyFilterWhereBuilder(searchFilters.minEmployees,
                                         searchFilters.maxEmployees,
                                         searchFilters.nameLike)
      stmt == Statement(<<CompanySelect>> \o built.where \o <<" ORDER BY name">>,
                        built.vals)
  IN  IF MinGreaterThanMax(searchFilters.minEmployees, searchFilters.maxEmployees)
      THEN FilterCall("Company.findAll", searchFilters, 0, Filter(<<>>, <<>>),
                      <<>>, "BadRequestError",
                      "Min employees cannot be greater than max")
      ELSE FilterCall("Company.findAll", searchFilters, 1, built, <<stmt>>, "", "")

----------------------------------------------------------------------------
(* Inputs and actions of the filter family. *)

\* Job search criteria: each field absent or present; hasEquity also with
\* values that are truthy without being true.
JobSearchFilters ==
  [minSalary : {Undefined, Num(0), Num(50000)},
   hasEquity : {Undefined, Bool(TRUE), Bool(FALSE), Str("true"), Num(1)},
   title : {Undefined, Str(""), Str("Engineer")}]

\* Company search criteria: each bound absent, a count, or (the minimum)
\* the NaN that `+` makes of a non-numeric query string.
CompanySearchFilters ==
  [minEmployees : {Undefined, NaN} \cup {Num(k) : k \in 0..MaxEmployees},
   maxEmployees : {Undefined} \cup {Num(k) : k \in 0..MaxEmployees},
   nameLike : {Undefined, Str(""), Str("net")}]

\* A direct call of Job._filterWhereBuilder.
JobFilterWhereBuilderCall ==
  \E f \in JobSearchFilters :
    /\ filterCall' =
         FilterCall("Job._filterWhereBuilder", f, 1,
                    JobFilterWhereBuilder(f.minSalary, f.hasEquity, f.title),
                    <<>>, "", "")
    /\ UNCHANGED <<parked, users, registerCall, companies, jobs, updateCall, procs, req>>

\* Job.findAll(searchFilters).
JobFindAll ==
  \E f \in JobSearchFilters :
    /\ filterCall' = JobFindAllResult(f)
    /\ UNCHANGED <<parked, users, registerCall, companies, jobs, updateCall, procs, req>>

\* A direct call of Company._filterWhereBuilder.
CompanyFilterWhereBuilderCall ==
  \E f \in CompanySearchFilters :
    /\ filterCall' =
         FilterCall("Company._filterWhereBuilder", f, 1,
                    CompanyFilterWhereBuilder(f.minEmployees, f.maxEmployees,
                                              f.nameLike),
                    <<>>, "", "")
    /\ UNCHANGED <<parked, users, registerCall, companies, jobs, updateCall, procs, req>>

\* Company.findAll(searchFilters).
CompanyFindAll ==
  \E f \in CompanySearchFilters :
    /\ filterCall' = CompanyFindAllResult(f)
    /\ UNCHANGED <<parked, users, registerCall, companies, jobs, updateCall, procs, req>>

----------------------------------------------------------------------------
(* middleware/auth.js *)

\* res.locals.user: undefined, or the payload of a verified token.
NoUser == [defined |-> FALSE, username |-> Undefined, isAdmin |-> Undefined]

User(username, isAdmin) ==
  [defined |-> TRUE, username |-> username, isAdmin |-> isAdmin]

\* The payloads of the tokens the server signs: createToken(user) embeds the
\* user's username and isAdmin flag.
Payloads ==
  {User(Str("u1"), Bool(a)) : a \in BOOLEAN}

\* The Authorization header of a request: absent, the empty string, a
\* string that is no token, a token for a payload signed with another key,
\* or a token for a payload signed with SECRET_KEY.
Header(kind, payload) == [kind |-> kind, payload |-> payload]

Headers ==
  {Header("absent", NoUser), Header("empty", NoUser), Header("malformed", NoUser)}
    \cup {Header("badsig", p) : p \in Payloads}
    \cup {Header("signed", p) : p \in Payloads}

\* The mutant of JwtVerify below that decodes the payload without checking
\* the signature.
JwtDecode(header) ==
  IF header.kind \in {"signed", "badsig"}
  THEN [err |-> "", payload |-> header.payload]
  ELSE [err |-> "JsonWebTokenError", payload |-> NoUser]

\* jwt.verify(token, SECRET_KEY): the payload of a token signed with
\* SECRET_KEY; throws for anything else.
JwtVerify(header) ==
  IF header.kind = "signed"
  THEN [err |-> "", payload |-> header.payload]
  ELSE [err |-> "JsonWebTokenError", payload |-> NoUser]

\* The mutant of authenticateJWT below that stores the payload of any token
\* that carries one (jwt.decode in place of jwt.verify).
authenticateJWTUnverified(header) ==
  LET authHeader == header.kind \notin {"absent", "empty"}
      decoded == JwtDecode(header)
  IN  IF authHeader /\ decoded.err = ""
      THEN [user |-> decoded.payload, err |-> "", next |-> 1]
      ELSE [user |-> NoUser, err |-> "", next |-> 1]

\* authenticateJWT(req, res, next): what it leaves in res.locals.user, the
\* error it throws ("" if none) and how many times it calls next.
authenticateJWT(header) ==
  LET authHeader == header.kind \notin {"absent", "empty"}
      verified == JwtVerify(header)
  IN  IF authHeader /\ verified.err = ""
      THEN [user |-> verified.payload, err |-> "", next |-> 1]
      ELSE [user |-> NoUser, err |-> "", next |-> 1]

\* ensureLoggedIn: whether it calls next (else it throws UnauthorizedError).
ensureLoggedIn(user) == Truthy(user.username)

\* The mutant of ensureAdmin below that only requires a logged-in user.
ensureAdminAnyUser(user) == Truthy(user.username)

\* ensureAdmin: whether it calls next (else it throws UnauthorizedError).
ensureAdmin(user) == Truthy(user.username) /\ user.isAdmin = Bool(TRUE)

\* The mutant of ensureCorrectUserOrAdmin below that lets any logged-in
\* user through.
ensureCorrectUserOrAdminAnyUser(user, paramUsername) == Truthy(user.username)

\* ensureCorrectUserOrAdmin: whether it calls next (else it throws
\* UnauthorizedError); paramUsername is req.params.username.
ensureCorrectUserOrAdmin(user, paramUsername) ==
  LET username == user.username
  IN  Truthy(username)
        /\ (username = paramUsername \/ user.isAdmin = Bool(TRUE))

----------------------------------------------------------------------------
(* models/company.js and models/job.js: create.  Each await of db.query   *)
(* is a point where the calls of other callers may run.                   *)

Callers == 1..NumCallers

\* INSERT INTO companies ...: handle is the table's primary key, so the
\* store refuses a row whose handle a stored row has.
DbInsertCompany(rows, row) ==
  IF \E r \in rows : r.handle = row.handle
  THEN [err |-> "DatabaseError", rows |-> rows]
  ELSE [err |-> "", rows |-> rows \cup {row}]

\* A create call, as the state keeps it: the method, where the call is
\* (pc), its argument, the rows its pre-check SELECT returned, how many
\* statements it has sent to db.query, whether its INSERT stored a row, and
\* the error it ended with ("" if none).
CreateCall(op, pc, data, checkRows, queries, inserted, err, msg) ==
  [op |-> op, pc |-> pc, data |-> data, checkRows |-> checkRows,
   queries |-> queries, inserted |-> inserted, err |-> err, msg |-> msg]

NoCreateCall == CreateCall("none", "idle", Undefined, {}, 0, FALSE, "", "")

\* The company a caller asks Company.create to store.
NewCompany(caller, handle) ==
  CompanyRow(handle, Str("by-" \o ToString(caller)), Str("Desc"), Num(1), Null)

\* Company.create, up to its first await: the duplicate-check SELECT runs.
CompanyCreateCheck(caller) ==
  /\ procs[caller].pc \in {"idle", "done"}
  /\ \E handle \in Handles :
       procs' = [procs EXCEPT ![caller] =
                   CreateCall("Company.create", "checked",
                              NewCompany(caller, handle),
                              {r \in companies : r.handle = handle},
                              1, FALSE, "", "")]
  /\ UNCHANGED <<parked, users, registerCall, companies, jobs, updateCall, filterCall, req>>

\* Company.create, from its first await on: a row from the duplicate check
\* throws BadRequestError; otherwise the INSERT runs and the call returns
\* the new row, or ends with the error the store raised.
CompanyCreateInsert(caller) ==
  /\ procs[caller].pc = "checked"
  /\ procs[caller].op = "Company.create"
  /\ LET call == procs[caller]
         result == DbInsertCompany(companies, call.data)
     IN  IF call.checkRows # {}
         THEN /\ procs' = [procs EXCEPT ![caller] =
                             [call EXCEPT !.pc = "done",
                                          !.err = "BadRequestError",
                                          !.msg = "Duplicate company: "
                                                    \o JsToString(call.data.handle)]]
              /\ UNCHANGED companies
         ELSE /\ procs' = [procs EXCEPT ![caller] =
                             [call EXCEPT !.pc = "done",
                                          !.queries = 2,
                                          !.inserted = (result.err = ""),
                                          !.err = result.err]]
              /\ companies' = result.rows
  /\ UNCHANGED <<parked, users, registerCall, jobs, updateCall, filterCall, req>>

\* What Job.create is called with.
JobArgs(companyHandle) ==
  [title |-> Str("new"), salary |-> Num(1), equity |-> Str("0"),
   companyHandle |-> companyHandle]

JobCompanyHandles == Handles \cup {Str("nope")}

\* Job.create({ title, salary, equity, companyHandle }).  The pre-check's
\* argument list reads data.companyHandle, and no `data` is in scope (the
\* parameter is destructured): evaluating it throws ReferenceError before
\* db.query is called, so the call ends there, with no statement sent.
JobCreate(caller) ==
  /\ procs[caller].pc \in {"idle", "done"}
  /\ \E companyHandle \in JobCompanyHandles :
       procs' = [procs EXCEPT ![caller] =
                   CreateCall("Job.create", "done", JobArgs(companyHandle),
                              {}, 0, FALSE, "ReferenceError",
                              "data is not defined")]
  /\ UNCHANGED <<parked, users, registerCall, companies, jobs, updateCall, filterCall, req>>

----------------------------------------------------------------------------
(* routes/auth.js and routes/users.js: the users table.  The User model  *)
(* (models/user.js) is described by what the routes pass it and expect of *)
(* it: register stores a user, update changes the fields it is given,     *)
(* remove deletes the row, and each throws when the row is not as needed. *)

UserColumns == {"username", "first_name", "is_admin"}

UserRow(username, firstName, isAdmin) ==
  [username |-> username, first_name |-> firstName, is_admin |-> isAdmin]

\* The users table to begin with: one admin.
InitUsers == {UserRow(Str("u1"), Str("U1"), Bool(TRUE))}

\* { ...obj, [k]: v }: the property keeps its place if obj has it, and is
\* added last if not; its value is v either way.
SpreadThen(obj, k, v) ==
  IF HasOwn(obj, k)
  THEN [i \in 1..Len(obj) |->
          IF obj[i].key = k THEN [key |-> k, val |-> v] ELSE obj[i]]
  ELSE Append(obj, [key |-> k, val |-> v])

\* The mutant of RegisterData below that spreads the body last:
\* { isAdmin: false, ...req.body }.
RegisterDataBodyWins(body) ==
  LET other(e) == e.key # "isAdmin"
  IN  <<[key |-> "isAdmin",
         val |-> IF HasOwn(body, "isAdmin")
                 THEN JsGet(body, "isAdmin") ELSE Bool(FALSE)]>>
        \o SelectSeq(body, other)

\* What POST /auth/register passes to User.register:
\* { ...req.body, isAdmin: false }.
RegisterData(body) == SpreadThen(body, "isAdmin", Bool(FALSE))

\* User.register(data), run on rows: a username already stored is refused
\* with BadRequestError; otherwise the user is stored with the isAdmin it
\* was given.
UserRegisterResult(rows, data) ==
  LET username == JsGet(data, "username")
      isAdmin == JsGet(data, "isAdmin")
  IN  IF \E r \in rows : r.username = username
      THEN [err |-> "BadRequestError",
            msg |-> "Duplicate username: " \o JsToString(username),
            rows |-> rows, user |-> NoUser]
      ELSE [err |-> "", msg |-> "",
            rows |-> rows \cup {UserRow(username, JsGet(data, "firstName"), isAdmin)},
            user |-> User(username, isAdmin)]

UserWhere == " WHERE username = "

UserReturning ==
  " RETURNING username, first_name AS \"firstName\", is_admin AS \"isAdmin\""

\* User.update's jsToSql.
UserColumnMap ==
  <<[key |-> "firstName", val |-> Str("first_name")],
    [key |-> "isAdmin", val |-> Str("is_admin")]>>

\* User.update(username, data), run on rows: a partial update like
\* Company.update's; no row changed is NotFoundError.
UserUpdateResult(rows, username, data) ==
  LET built == sqlForPartialUpdate(data, UserColumnMap)
      querySql == <<"UPDATE users SET ">> \o built.setCols
                    \o <<UserWhere, Ph(Len(built.values) + 1), UserReturning>>
      stmt == Statement(querySql, built.values \o <<username>>)
      result == DbUpdate(rows, UserColumns, "username", UserWhere, stmt)
  IN  IF built.err # ""
      THEN [err |-> built.err, rows |-> rows]
      ELSE IF result.err # ""
      THEN [err |-> result.err, rows |-> result.rows]
      ELSE IF result.returned = {}
      THEN [err |-> "NotFoundError", rows |-> result.rows]
      ELSE [err |-> "", rows |-> result.rows]

UserDelete ==
  <<"DELETE FROM users WHERE username = ", Ph(1), " RETURNING username">>

\* User.remove(username), run on rows: no row deleted is NotFoundError.
UserRemoveResult(rows, username) ==
  LET result == DbDelete(rows, "username", Statement(UserDelete, <<username>>))
  IN  IF result.err # ""
      THEN [err |-> result.err, rows |-> result.rows]
      ELSE IF result.returned = {}
      THEN [err |-> "NotFoundError", rows |-> result.rows]
      ELSE [err |-> "", rows |-> result.rows]

\* A request to a route on users, as the state keeps it: its route, its
\* Authorization header, req.params.username, its body, whether the body
\* satisfies the route's schema, what was passed to the User method (<<>>
\* if it was not called), the user it returned and the error the request
\* ended with.
RegisterCall(route, header, username, body, valid, data, user, err) ==
  [route |-> route, header |-> header, username |-> username, body |-> body,
   valid |-> valid, data |-> data, user |-> user, err |-> err]

NoRegisterCall ==
  RegisterCall("", Header("absent", NoUser), Undefined, <<>>, TRUE, <<>>,
               NoUser, "")

\* Bodies of a registration: a new username and a first name, with an
\* isAdmin field after them or before them.
RegisterBodies ==
  LET name(u) == [key |-> "username", val |-> Str(u)]
      first == [key |-> "firstName", val |-> Str("F")]
      admin(a) == [key |-> "isAdmin", val |-> a]
  IN  UNION {{<<admin(Str("yes")), name(u), first>>}
               \cup {<<name(u), first, admin(Bool(a))>> : a \in BOOLEAN} :
             u \in {"u2", "u3"}}

\* Bodies of PATCH /users/:username.
UserUpdateBodies == {<<[key |-> "firstName", val |-> Str("G")]>>}

\* The :username of a request to PATCH or DELETE /users/:username.
UserParams == {Str("u1"), Str("u2")}

\* Authorization headers of a request to these routes: none, a forged admin
\* token, an admin's token and the token of a user who is not an admin.
RegisterHeaders ==
  {Header("absent", NoUser),
   Header("badsig", User(Str("u1"), Bool(TRUE))),
   Header("signed", User(Str("u1"), Bool(TRUE))),
   Header("signed", User(Str("u2"), Bool(FALSE)))}

\* POST /auth/register: no gate; the body is validated and the user
\* registered with isAdmin false.
AuthRegister ==
  \E header \in RegisterHeaders, body \in RegisterBodies, valid \in BOOLEAN :
    LET data == RegisterData(body)
        r == UserRegisterResult(users, data)
        call(passed, user, err) ==
          RegisterCall("POST /auth/register", header, Undefined, body, valid,
                       passed, user, err)
    IN  /\ authenticateJWT(header).next = 1
        /\ IF ~valid
           THEN /\ registerCall' = call(<<>>, NoUser, "BadRequestError")
                /\ users' = users
           ELSE /\ registerCall' = call(data, r.user, r.err)
                /\ users' = r.rows
        /\ UNCHANGED <<parked, companies, jobs, updateCall, filterCall, procs, req>>

\* POST /users: gated by ensureAdmin; the body is validated and the user
\* registered as the body describes it.
UsersRegister ==
  \E header \in RegisterHeaders, body \in RegisterBodies, valid \in BOOLEAN :
    LET user == authenticateJWT(header).user
        r == UserRegisterResult(users, body)
        call(passed, newUser, err) ==
          RegisterCall("POST /users", header, Undefined, body, valid,
                       passed, newUser, err)
    IN  /\ authenticateJWT(header).next = 1
        /\ IF ~ensureAdmin(user)
           THEN /\ registerCall' = call(<<>>, NoUser, "UnauthorizedError")
                /\ users' = users
           ELSE IF ~valid
           THEN /\ registerCall' = call(<<>>, NoUser, "BadRequestError")
                /\ users' = users
           ELSE /\ registerCall' = call(body, r.user, r.err)
                /\ users' = r.rows
        /\ UNCHANGED <<parked, companies, jobs, updateCall, filterCall, procs, req>>

\* PATCH /users/:username: gated by ensureCorrectUserOrAdmin; the body is
\* validated and passed to User.update.
UsersPatch ==
  \E header \in RegisterHeaders, username \in UserParams,
     body \in UserUpdateBodies, valid \in BOOLEAN :
    LET user == authenticateJWT(header).user
        r == UserUpdateResult(users, username, body)
        call(passed, err) ==
          RegisterCall("PATCH /users/:username", header, username, body,
                       valid, passed, NoUser, err)
    IN  /\ authenticateJWT(header).next = 1
        /\ IF ~ensureCorrectUserOrAdmin(user, username)
           THEN /\ registerCall' = call(<<>>, "UnauthorizedError")
                /\ users' = users
           ELSE IF ~valid
           THEN /\ registerCall' = call(<<>>, "BadRequestError")
                /\ users' = users
           ELSE /\ registerCall' = call(body, r.err)
                /\ users' = r.rows
        /\ UNCHANGED <<parked, companies, jobs, updateCall, filterCall, procs, req>>

\* DELETE /users/:username: gated by ensureCorrectUserOrAdmin; calls
\* User.remove.
UsersDelete ==
  \E header \in RegisterHeaders, username \in UserParams :
    LET user == authenticateJWT(header).user
        r == UserRemoveResult(users, username)
        call(err) ==
          RegisterCall("DELETE /users/:username", header, username, <<>>,
                       TRUE, <<>>, NoUser, err)
    IN  /\ authenticateJWT(header).next = 1
        /\ IF ~ensureCorrectUserOrAdmin(user, username)
           THEN /\ registerCall' = call("UnauthorizedError")
                /\ users' = users
           ELSE /\ registerCall' = call(r.err)
                /\ users' = r.rows
        /\ UNCHANGED <<parked, companies, jobs, updateCall, filterCall, procs, req>>

----------------------------------------------------------------------------
(* app.js and routes/*.js: the middleware chain of a request. *)

\* A route: the gate in front of its handler, whether its path has a
\* :username parameter, whether its handler validates the body or query
\* against a schema first, and the model method the handler then calls.
Route(name, gate, hasUsername, validates, calls) ==
  [name |-> name, gate |-> gate, hasUsername |-> hasUsername,
   validates |-> validates, calls |-> calls]

AuthRoutes ==
  {Route("POST /auth/token", "none", FALSE, TRUE, "User.authenticate"),
   Route("POST /auth/register", "none", FALSE, TRUE, "User.register")}

CompaniesRoutes ==
  {Route("POST /companies", "ensureAdmin", FALSE, TRUE, "Company.create"),
   Route("GET /companies", "none", FALSE, TRUE, "Company.findAll"),
   Route("GET /companies/:handle", "none", FALSE, FALSE, "Company.get"),
   Route("PATCH /companies/:handle", "ensureAdmin", FALSE, TRUE, "Company.update"),
   Route("DELETE /companies/:handle", "ensureAdmin", FALSE, FALSE, "Company.remove")}

UsersRoutes ==
  {Route("POST /users", "ensureAdmin", FALSE, TRUE, "User.register"),
   Route("GET /users", "ensureAdmin", FALSE, FALSE, "User.findAll"),
   Route("GET /users/:username", "ensureCorrectUserOrAdmin", TRUE, FALSE, "User.get"),
   Route("PATCH /users/:username", "ensureCorrectUserOrAdmin", TRUE, TRUE, "User.update"),
   Route("DELETE /users/:username", "ensureCorrectUserOrAdmin", TRUE, FALSE, "User.remove"),
   Route("POST /users/:username/jobs/:id", "ensureCorrectUserOrAdmin", TRUE, FALSE,
         "User.applyToJob")}

JobsRoutes ==
  {Route("POST /jobs", "ensureAdmin", FALSE, TRUE, "Job.create"),
   Route("GET /jobs", "none", FALSE, TRUE, "Job.findAll"),
   Route("GET /jobs/:id", "none", FALSE, FALSE, "Job.get"),
   Route("PATCH /jobs/:id", "ensureAdmin", FALSE, TRUE, "Job.update"),
   Route("DELETE /jobs/:id", "ensureAdmin", FALSE, FALSE, "Job.remove")}

Routes == AuthRoutes \cup CompaniesRoutes \cup UsersRoutes \cup JobsRoutes

\* Whether the route's gate lets the request through to the handler.
GatePasses(route, user, paramUsername) ==
  CASE route.gate = "none" -> TRUE
    [] route.gate = "ensureLoggedIn" -> ensureLoggedIn(user)
    [] route.gate = "ensureAdmin" -> ensureAdmin(user)
    [] route.gate = "ensureCorrectUserOrAdmin" ->
         ensureCorrectUserOrAdmin(user, paramUsername)

\* A request, as the state keeps it: where it is in the chain (pc), its
\* Authorization header, its route, req.params.username, the route's other
\* parameter (an id or a handle), its body, whether its body or query
\* satisfies the route's schema, res.locals.user, how many times
\* authenticateJWT called next, the error thrown so far ("" if none), and
\* the model method the handler called ("" if none).
Request(pc, header, route, paramUsername, param, body, bodyValid, user, nextCalls, err, called) ==
  [pc |-> pc, header |-> header, route |-> route,
   paramUsername |-> paramUsername, param |-> param, body |-> body,
   bodyValid |-> bodyValid, user |-> user,
   nextCalls |-> nextCalls, err |-> err, called |-> called]

NoRequest ==
  Request("idle", Header("absent", NoUser),
          Route("", "none", FALSE, FALSE, ""), Undefined, Undefined, <<>>,
          TRUE, NoUser, 0, "", "")

ParamUsernames == {Str("u1"), Str("u2")}

\* The id or handle and the body a request to the route carries.
RouteInputs(route) ==
  CASE route.calls = "Job.update" ->
         [param : JobIdParams, body : {<<[key |-> "title", val |-> Str("j2")]>>}]
    [] route.calls \in {"Job.get", "Job.remove", "User.applyToJob"} ->
         [param : JobIdParams, body : {<<>>}]
    [] route.calls = "Company.update" ->
         [param : Handles, body : {<<[key |-> "numEmployees", val |-> Num(2)]>>}]
    [] route.calls \in {"Company.get", "Company.remove"} ->
         [param : Handles, body : {<<>>}]
    [] route.calls = "Company.create" ->
         [param : {Undefined},
          body : {<<[key |-> "handle", val |-> Str("c2")],
                    [key |-> "name", val |-> Str("C2")]>>}]
    [] route.calls = "User.register" ->
         [param : {Undefined},
          body : {<<[key |-> "username", val |-> Str("u2")],
                    [key |-> "firstName", val |-> Str("F")],
                    [key |-> "isAdmin", val |-> Bool(TRUE)]>>}]
    [] route.calls = "User.update" ->
         [param : {Undefined}, body : UserUpdateBodies]
    [] OTHER -> [param : {Undefined}, body : {<<>>}]

\* A request arrives: the server is running no other request, and fewer
\* than NumCallers wait at an await.
Receive ==
  /\ req.pc = "idle"
  /\ BagCardinality(parked) < NumCallers
  /\ \E header \in Headers, route \in Routes, bodyValid \in BOOLEAN :
       \E paramUsername \in
            IF route.hasUsername THEN ParamUsernames ELSE {Undefined} :
         \E in \in RouteInputs(route) :
           /\ route.validates \/ bodyValid
           /\ req' = Request("authenticateJWT", header, route, paramUsername,
                             in.param, in.body, bodyValid, NoUser, 0, "", "")
  /\ UNCHANGED <<parked, users, registerCall, companies, jobs, updateCall, filterCall, procs>>

\* app.use(authenticateJWT).  An error it threw would go to the error
\* handler and end the request.
AuthenticateJWT ==
  /\ req.pc = "authenticateJWT"
  /\ LET r == authenticateJWT(req.header)
     IN  req' = [req EXCEPT !.user = r.user, !.err = r.err,
                            !.nextCalls = r.next,
                            !.pc = IF r.err = "" /\ r.next = 1
                                   THEN "gate" ELSE "done"]
  /\ UNCHANGED <<parked, users, registerCall, companies, jobs, updateCall, filterCall, procs>>

\* The mutant of Gate below in which a failed check still lets the request
\* through to the handler.
GateFallThrough ==
  /\ req.pc = "gate"
  /\ req' = IF GatePasses(req.route, req.user, req.paramUsername)
            THEN [req EXCEPT !.pc = "handler"]
            ELSE [req EXCEPT !.pc = "handler", !.err = "UnauthorizedError"]
  /\ UNCHANGED <<parked, users, registerCall, companies, jobs, updateCall, filterCall, procs>>

\* The route's gate: it calls next, or throws UnauthorizedError, which the
\* error handler answers.
Gate ==
  /\ req.pc = "gate"
  /\ req' = IF GatePasses(req.route, req.user, req.paramUsername)
            THEN [req EXCEPT !.pc = "handler"]
            ELSE [req EXCEPT !.pc = "done", !.err = "UnauthorizedError"]
  /\ UNCHANGED <<parked, users, registerCall, companies, jobs, updateCall, filterCall, procs>>

\* What the store gets for a value: undefined is sent as null.
DbValue(v) == IF v = Undefined THEN Null ELSE v

\* The company a request body describes.
CompanyOf(body) ==
  CompanyRow(DbValue(JsGet(body, "handle")), DbValue(JsGet(body, "name")),
             DbValue(JsGet(body, "description")),
             DbValue(JsGet(body, "numEmployees")),
             DbValue(JsGet(body, "logoUrl")))

\* Company.create's duplicate check, run on rows:
\* SELECT handle FROM companies WHERE handle = $1.
CompanyCreateSelect(rows, handle) ==
  {[c \in {"handle"} |-> r.handle] : r \in {x \in rows : x.handle = handle}}

\* Company.create from its first await on, run on rows: a row from the
\* duplicate check throws BadRequestError; otherwise the INSERT runs, and
\* the call returns the new row or ends with the error the store raised.
CompanyCreateInsertResult(rows, data, checkRows) ==
  LET result == DbInsertCompany(rows, data)
  IN  IF checkRows # {}
      THEN [err |-> "BadRequestError", rows |-> rows]
      ELSE [err |-> result.err, rows |-> result.rows]

\* What the handler's model call does for request q, for the methods whose
\* outcome one statement decides: the error it ends with ("" if none) and
\* the tables it leaves.  The calls that only read leave the tables as they
\* are (the second SELECT of Job.get and Company.get fills in the answer and
\* throws nothing); User.applyToJob writes to the applications table, which
\* is not among the tables kept here.  The id of a jobs route is the string
\* of the path, which the store reads as an integer.
HandlerOutcome(q) ==
  LET out(err, c, j, u) ==
        [err |-> err, companies |-> c, jobs |-> j, users |-> u]
      missing(rows, col, key) ==
        IF ~DbCastable(col, key) THEN "DatabaseError"
        ELSE IF \E r \in rows : r[col] = DbCast(col, key) THEN ""
        ELSE "NotFoundError"
      calls == q.route.calls
  IN  CASE calls = "Job.create" ->
             out("ReferenceError", companies, jobs, users)
        [] calls = "Job.get" ->
             out(missing(jobs, "id", q.param), companies, jobs, users)
        [] calls = "Job.update" ->
             LET r == JobUpdateResult(jobs, q.param, q.body)
             IN  out(r.call.err, companies, r.rows, users)
        [] calls = "Job.remove" ->
             LET r == JobRemoveResult(jobs, q.param)
             IN  out(r.call.err, companies, r.rows, users)
        [] calls = "Company.get" ->
             out(missing(companies, "handle", q.param), companies, jobs, users)
        [] calls = "Company.update" ->
             LET r == CompanyUpdateResult(companies, q.param, q.body)
             IN  out(r.call.err, r.rows, jobs, users)
        [] calls = "Company.remove" ->
             LET r == CompanyRemoveResult(companies, q.param)
             IN  out(r.call.err, r.rows, DbCascadeJobs(jobs, r.rows), users)
        [] calls = "User.register" ->
             LET r == UserRegisterResult(
                        users,
                        IF q.route.name = "POST /auth/register"
                        THEN RegisterData(q.body) ELSE q.body)
             IN  out(r.err, companies, jobs, r.rows)
        [] calls = "User.get" ->
             out(missing(users, "username", q.paramUsername),
                 companies, jobs, users)
        [] calls = "User.update" ->
             LET r == UserUpdateResult(users, q.paramUsername, q.body)
             IN  out(r.err, companies, jobs, r.rows)
        [] calls = "User.remove" ->
             LET r == UserRemoveResult(users, q.paramUsername)
             IN  out(r.err, companies, jobs, r.rows)
        [] OTHER -> out("", companies, jobs, users)

\* A request waiting at the await between the two statements of
\* Company.create: the request and the rows its duplicate check returned.
Parked(q, checkRows) == [q |-> q, checkRows |-> checkRows]

\* The route's handler, up to where it returns to the event loop.  A body or
\* query that fails the schema throws BadRequestError.  Otherwise the
\* handler awaits its model method.  Company.create sends two statements,
\* and the server runs other requests while it waits for each: its
\* duplicate check runs here and the request waits for HandlerResume.  For
\* the other methods one statement decides the outcome: it runs here and
\* the request is answered with what the method returned or threw.
Handler ==
  /\ req.pc = "handler"
  /\ IF req.route.validates /\ ~req.bodyValid
     THEN /\ req' = [req EXCEPT !.pc = "done", !.err = "BadRequestError"]
          /\ UNCHANGED <<companies, jobs, users, parked>>
     ELSE IF req.route.calls = "Company.create"
     THEN /\ parked' =
               parked (+)
                 SetToBag({Parked([req EXCEPT !.pc = "awaiting",
                                              !.called = req.route.calls],
                                  CompanyCreateSelect(
                                    companies, CompanyOf(req.body).handle))})
          /\ req' = NoRequest
          /\ UNCHANGED <<companies, jobs, users>>
     ELSE LET o == HandlerOutcome(req)
          IN  /\ req' = [req EXCEPT !.pc = "done", !.err = o.err,
                                    !.called = req.route.calls]
              /\ companies' = o.companies
              /\ jobs' = o.jobs
              /\ users' = o.users
              /\ UNCHANGED parked
  /\ UNCHANGED <<registerCall, updateCall, filterCall, procs>>

\* The handler of a waiting request goes on once the server runs no other
\* request: Company.create looks at the rows of its duplicate check and
\* sends its INSERT, which runs on the table as it is by now, and the
\* request is answered.
HandlerResume ==
  /\ req.pc = "idle"
  /\ \E p \in BagToSet(parked) :
       LET r == CompanyCreateInsertResult(companies, CompanyOf(p.q.body),
                                          p.checkRows)
       IN  /\ req' = [p.q EXCEPT !.pc = "done", !.err = r.err]
           /\ companies' = r.rows
           /\ parked' = parked (-) SetToBag({p})
  /\ UNCHANGED <<jobs, users, registerCall, updateCall, filterCall, procs>>

\* The response has been sent: the request is over.
Respond ==
  /\ req.pc = "done"
  /\ req' = NoRequest
  /\ UNCHANGED <<parked, users, registerCall, companies, jobs, updateCall, filterCall, procs>>

----------------------------------------------------------------------------
(* Specifications: one per family of operations, from the same initial     *)
(* state.                                                                  *)

Init ==
  /\ companies = InitCompanies
  /\ jobs = InitJobs
  /\ updateCall = NoUpdateCall
  /\ filterCall = NoFilterCall
  /\ procs = [c \in Callers |-> NoCreateCall]
  /\ req = NoRequest
  /\ users = InitUsers
  /\ registerCall = NoRegisterCall
  /\ parked = EmptyBag

NextUpdate ==
  \/ SqlForPartialUpdateCall
  \/ JobUpdate
  \/ CompanyUpdate
  \/ JobRemove
  \/ CompanyRemove

SpecUpdate == Init /\ [][NextUpdate]_vars

NextFilter ==
  \/ JobFilterWhereBuilderCall
  \/ JobFindAll
  \/ CompanyFilterWhereBuilderCall
  \/ CompanyFindAll

SpecFilter == Init /\ [][NextFilter]_vars

NextAuth ==
  \/ Receive
  \/ AuthenticateJWT
  \/ Gate
  \/ Handler
  \/ HandlerResume
  \/ Respond

SpecAuth == Init /\ [][NextAuth]_vars

NextCreate ==
  \E caller \in Callers :
    \/ CompanyCreateCheck(caller)
    \/ CompanyCreateInsert(caller)
    \/ JobCreate(caller)

SpecCreate == Init /\ [][NextCreate]_vars

NextRegister ==
  \/ AuthRegister
  \/ UsersRegister
  \/ UsersPatch
  \/ UsersDelete

SpecRegister == Init /\ [][NextRegister]_vars

----------------------------------------------------------------------------
(* Reading a built text back. *)

\* The number of clauses of a comma-separated list.
NumClauses(text) ==
  IF text = <<>> THEN 0
  ELSE 1 + Cardinality({i \in 1..Len(text) : text[i] = ", "})

\* The placeholders $1..$n, in order.
PhSeq(n) == [i \in 1..n |-> Ph(i)]

\* The pieces of text between the tokens equal to sep.
RECURSIVE SplitOn(_, _)
SplitOn(text, sep) ==
  LET i == IndexOf(text, sep)
  IN  IF i = 0 THEN <<text>>
      ELSE <<SubSeq(text, 1, i - 1)>> \o SplitOn(SubSeq(text, i + 1, Len(text)), sep)

\* The predicates of a WHERE clause ("" has none).
Predicates(where) ==
  IF where = <<>> THEN <<>> ELSE SplitOn(Tail(where), " AND ")

----------------------------------------------------------------------------
(* Properties of the update family (SpecUpdate). *)

\* C1: for every non-empty update object and any column map, setCols has as
\* many assignment clauses as the object has keys, values has as many
\* entries, and the placeholders of setCols are exactly $1..$n, each once,
\* in increasing order from left to right.
PartialUpdateCountsAndPlaceholders ==
  (updateCall.op # "none" /\ Len(updateCall.data) > 0) =>
    LET n == Len(updateCall.data)
    IN  /\ NumClauses(updateCall.setCols) = n
        /\ Len(updateCall.values) = n
        /\ Len(ObjKeys(updateCall.data)) = n
        /\ Placeholders(updateCall.setCols) = PhSeq(n)
        /\ Cardinality({i \in 1..Len(updateCall.setCols) :
                          updateCall.setCols[i] = "="}) = n

\* C1's case: a direct call with a column map and the most keys.
PartialUpdateManyKeys ==
  /\ updateCall.op = "sqlForPartialUpdate"
  /\ Len(updateCall.data) >= 2
  /\ updateCall.jsToSql = CompanyColumnMap
  /\ updateCall.err = ""

\* The calls that take an update object.
UpdateOps == {"sqlForPartialUpdate", "Job.update", "Company.update"}

\* C2: with an empty update object sqlForPartialUpdate throws
\* BadRequestError "No data", and so do Job.update and Company.update,
\* which then send no statement to the data layer.
EmptyUpdateRejected ==
  (updateCall.op \in UpdateOps /\ updateCall.data = <<>>) =>
    /\ updateCall.err = "BadRequestError"
    /\ updateCall.msg = "No data"
    /\ updateCall.queries = <<>>
    /\ updateCall.returned = {}

\* C2's case: Job.update called with {} for a stored job.
EmptyJobUpdate ==
  /\ updateCall.op = "Job.update"
  /\ updateCall.data = <<>>
  /\ updateCall.key = Num(1)
  /\ updateCall.err = "BadRequestError"

\* The model methods that address one stored row by its key.
RowOps == {"Job.update", "Job.remove", "Company.update", "Company.remove"}

\* Whether the table op works on holds a row with this key.
KeyStored(op, key) ==
  IF op \in {"Job.update", "Job.remove"}
  THEN \E r \in jobs : r.id = key
  ELSE \E r \in companies : r.handle = key

\* A step that changes a table ends a call without error.
TablesChangeOnlyOnSuccess ==
  (jobs' # jobs \/ companies' # companies) => updateCall'.err = ""

\* C11: Job.update, Job.remove, Company.update and Company.remove called
\* for an id/handle that matches no stored row throw NotFoundError and leave
\* the stored rows unchanged, and called for an existing row they do not
\* throw NotFoundError; for the two update methods this is the case of a
\* non-empty update object (an empty one is refused before any statement).
MissingRowNotFound ==
  [][/\ (/\ updateCall' # updateCall
         /\ updateCall'.op \in RowOps
         /\ (updateCall'.op \in UpdateOps => updateCall'.data # <<>>))
          => IF KeyStored(updateCall'.op, updateCall'.key)
             THEN updateCall'.err # "NotFoundError"
             ELSE /\ updateCall'.err = "NotFoundError"
                  /\ jobs' = jobs
                  /\ companies' = companies
     /\ TablesChangeOnlyOnSuccess]_vars

\* C11's case: Company.remove of a handle that is not stored, with the
\* stored company still there.
RemoveMissingCompany ==
  /\ updateCall.op = "Company.remove"
  /\ updateCall.key = Str("c2")
  /\ updateCall.err = "NotFoundError"
  /\ Len(updateCall.queries) = 1
  /\ companies = InitCompanies
  /\ jobs = InitJobs

\* C11 as stated, for every update object, the empty one included.
MissingRowAlwaysNotFound ==
  [][(updateCall' # updateCall /\ updateCall'.op \in RowOps)
       => IF KeyStored(updateCall'.op, updateCall'.key)
          THEN updateCall'.err # "NotFoundError"
          ELSE /\ updateCall'.err = "NotFoundError"
               /\ jobs' = jobs
               /\ companies' = companies]_vars

\* The WHERE token and the key column of the statement an update method
\* assembles.
WhereOf(op) == IF op = "Job.update" THEN JobWhere ELSE CompanyWhere

KeyColumnOf(op) == IF op = "Job.update" THEN "id" ELSE "handle"

\* C14: in the statement Job.update and Company.update assemble for an
\* update object with n keys, the SET placeholders are $1..$n, bound to the n
\* update values in the builder's order, and the WHERE key placeholder is
\* $(n+1), bound to the id/handle appended as the (n+1)-th and last query
\* value; no placeholder is unbound and no value is unreferenced.  A row the
\* statement changed holds each update value in its key's column.
UpdatePlaceholdersBound ==
  (updateCall.op \in {"Job.update", "Company.update"}
     /\ updateCall.queries # <<>>) =>
    LET n == Len(updateCall.data)
        stmt == updateCall.queries[1]
        w == IndexOf(stmt.text, WhereOf(updateCall.op))
        clauses == SetClauses(stmt.text, w)
        phs == Placeholders(stmt.text)
        column(i) ==
          JsToString(IF Truthy(JsGet(updateCall.jsToSql, updateCall.data[i].key))
                     THEN JsGet(updateCall.jsToSql, updateCall.data[i].key)
                     ELSE Str(updateCall.data[i].key))
    IN  /\ n > 0
        /\ Len(updateCall.queries) = 1
        /\ w > 0
        /\ Len(clauses) = n
        /\ Len(stmt.params) = n + 1
        /\ \A i \in 1..n :
             /\ clauses[i].ph = Ph(i)
             /\ clauses[i].col = column(i)
             /\ stmt.params[i] = updateCall.data[i].val
        /\ stmt.text[w + 1] = Ph(n + 1)
        /\ stmt.params[n + 1] = updateCall.key
        /\ phs = PhSeq(n + 1)
        /\ {PhIndex(phs[k]) : k \in 1..Len(phs)} = 1..Len(stmt.params)
        /\ updateCall.err \in {"", "NotFoundError"}
        /\ \A row \in updateCall.returned :
             /\ row[KeyColumnOf(updateCall.op)] = updateCall.key
             /\ \A i \in 1..n : row[column(i)] = updateCall.data[i].val

\* C14's case: Company.update of a stored company with two fields, one of
\* them with a mapped column.
CompanyUpdateTwoFields ==
  /\ updateCall.op = "Company.update"
  /\ ObjKeys(updateCall.data) = <<"numEmployees", "name">>
  /\ updateCall.key = Str("c1")
  /\ updateCall.err = ""
  /\ updateCall.queries[1].params = <<Num(2), Str("name-1"), Str("c1")>>
  /\ Placeholders(updateCall.queries[1].text) = <<Ph(1), Ph(2), Ph(3)>>
  /\ \E row \in companies :
       row.handle = Str("c1") /\ row.num_employees = Num(2) /\ row.name = Str("name-1")

\* Whether the column map gives the key a column: an entry of its own with
\* a non-empty name.
HasMapping(jsToSql, k) ==
  HasOwn(jsToSql, k)
    /\ Truthy(jsToSql[CHOOSE i \in 1..Len(jsToSql) : jsToSql[i].key = k].val)

\* The update object with every value replaced by null.
Blanked(data) == [i \in 1..Len(data) |-> [key |-> data[i].key, val |-> Null]]

\* C15: in sqlForPartialUpdate the i-th assignment clause names the column
\* columnMap[key_i] when the i-th key has a mapping and key_i verbatim
\* otherwise, and the i-th entry of values is the value the update object
\* holds for key_i; the clause text depends only on the keys and the column
\* map, never on the values.
ClauseNamesMappedColumnOrKey ==
  (updateCall.op \in UpdateOps /\ updateCall.err = "") =>
    LET n == Len(updateCall.data)
        clauses == SetClauses(<<"SET ">> \o updateCall.setCols,
                              Len(updateCall.setCols) + 2)
        key(i) == updateCall.data[i].key
    IN  /\ Len(clauses) = n
        /\ \A i \in 1..n :
             /\ clauses[i].col =
                  (IF HasMapping(updateCall.jsToSql, key(i))
                   THEN JsToString(JsGet(updateCall.jsToSql, key(i)))
                   ELSE key(i))
             /\ updateCall.values[i] = updateCall.data[i].val
        /\ updateCall.setCols =
             sqlForPartialUpdate(Blanked(updateCall.data),
                                 updateCall.jsToSql).setCols

----------------------------------------------------------------------------
(* Properties of the filter family (SpecFilter). *)

JobFilterOps == {"Job._filterWhereBuilder", "Job.findAll"}

\* Whether the clause holds the predicate whose first token is tok.
HasPredicate(where, tok) ==
  \E k \in 1..Len(Predicates(where)) : Predicates(where)[k][1] = tok

\* C3: the jobs filter holds "equity > 0" exactly when hasEquity is the
\* boolean true, and hasEquity never adds a value: vals has one entry for
\* minSalary if present and one for title if present.
EquityOnlyWhenTrue ==
  filterCall.op \in JobFilterOps =>
    LET f == filterCall.searchFilters
    IN  /\ HasPredicate(filterCall.where, "equity > 0") <=> (f.hasEquity = Bool(TRUE))
        /\ filterCall.vals =
             (IF f.minSalary # Undefined THEN <<f.minSalary>> ELSE <<>>)
               \o (IF f.title # Undefined
                   THEN <<Str("%" \o JsToString(f.title) \o "%")>> ELSE <<>>)

\* C3's case: hasEquity true alone gives the one predicate and no value.
EquityAlone ==
  /\ filterCall.op = "Job._filterWhereBuilder"
  /\ filterCall.searchFilters =
       [minSalary |-> Undefined, hasEquity |-> Bool(TRUE), title |-> Undefined]
  /\ filterCall.where = <<"WHERE ", "equity > 0">>
  /\ filterCall.vals = <<>>

\* The predicates the jobs criteria call for, in the order salary, equity,
\* title, each with the value it carries (Undefined for none).
ExpectedJobPredicates(f) ==
  (IF f.minSalary # Undefined
   THEN <<[tok |-> "salary >= ", val |-> f.minSalary]>> ELSE <<>>)
  \o (IF f.hasEquity = Bool(TRUE)
      THEN <<[tok |-> "equity > 0", val |-> Undefined]>> ELSE <<>>)
  \o (IF f.title # Undefined
      THEN <<[tok |-> "title ILIKE ",
              val |-> Str("%" \o JsToString(f.title) \o "%")]>>
      ELSE <<>>)

\* C4: for every combination of criteria the jobs filter holds the
\* predicates in the order salary, equity, title, joined by AND after
\* WHERE; its placeholders are exactly $1..$k for k the length of vals, and
\* the predicate holding $i is the one whose value is vals[i]; no predicate
\* gives the empty string and no values.
JobFilterOrderAndAlignment ==
  filterCall.op \in JobFilterOps =>
    LET f == filterCall.searchFilters
        preds == Predicates(filterCall.where)
        expected == ExpectedJobPredicates(f)
    IN  /\ Len(preds) = Len(expected)
        /\ \A k \in 1..Len(preds) : preds[k][1] = expected[k].tok
        /\ (expected = <<>>) <=> (filterCall.where = <<>>)
        /\ expected # <<>> =>
             filterCall.where = <<"WHERE ">> \o Join(preds, " AND ")
        /\ Placeholders(filterCall.where) = PhSeq(Len(filterCall.vals))
        /\ \A k \in 1..Len(preds) :
             IF expected[k].val = Undefined
             THEN preds[k] = <<expected[k].tok>>
             ELSE /\ Len(preds[k]) = 2
                  /\ IsPlaceholder(preds[k][2])
                  /\ filterCall.vals[PhIndex(preds[k][2])] = expected[k].val
        /\ (f.minSalary = Undefined /\ f.hasEquity = Undefined /\ f.title = Undefined)
             => (Render(filterCall.where) = "" /\ filterCall.vals = <<>>)
        /\ f = [minSalary |-> Num(50000), hasEquity |-> Bool(TRUE),
                title |-> Str("Engineer")]
             => /\ Render(filterCall.where)
                     = "WHERE salary >= $1 AND equity > 0 AND title ILIKE $2"
                /\ filterCall.vals = <<Num(50000), Str("%Engineer%")>>

\* C4's case: all three criteria present.
JobFilterAllCriteria ==
  /\ filterCall.op = "Job.findAll"
  /\ filterCall.searchFilters =
       [minSalary |-> Num(50000), hasEquity |-> Bool(TRUE), title |-> Str("Engineer")]
  /\ Len(filterCall.queries) = 1
  /\ filterCall.queries[1].params = <<Num(50000), Str("%Engineer%")>>

\* Whether v is an employee count (a number other than NaN).
IsCount(v) == v.t = "number" /\ v # NaN

\* C5: Company.findAll with both bounds present and minEmployees >
\* maxEmployees throws BadRequestError before it invokes the filter builder
\* or sends a statement; with only one bound, or minEmployees <=
\* maxEmployees, it does not throw.
MinAboveMaxRejected ==
  filterCall.op = "Company.findAll" =>
    LET min == filterCall.searchFilters.minEmployees
        max == filterCall.searchFilters.maxEmployees
    IN  /\ (IsCount(min) /\ IsCount(max) /\ min.n > max.n) =>
             /\ filterCall.err = "BadRequestError"
             /\ filterCall.builderCalls = 0
             /\ filterCall.queries = <<>>
        /\ (\/ (min = Undefined) # (max = Undefined)
            \/ (IsCount(min) /\ IsCount(max) /\ min.n <= max.n)) =>
             /\ filterCall.err = ""
             /\ filterCall.builderCalls = 1
             /\ Len(filterCall.queries) = 1

\* C5's case: a minimum above the maximum.
MinAboveMax ==
  /\ filterCall.op = "Company.findAll"
  /\ filterCall.searchFilters.minEmployees = Num(2)
  /\ filterCall.searchFilters.maxEmployees = Num(1)
  /\ filterCall.err = "BadRequestError"

CompanyFilterOps == {"Company._filterWhereBuilder", "Company.findAll"}

\* The predicates the companies criteria call for, in the order minimum,
\* maximum, name, each as its text and the value it carries, with `column`
\* the name the employee count goes by; the placeholder of a predicate is
\* numbered by how many values have been pushed up to and including its own.
ExpectedCompanyPredicates(f, column) ==
  LET n1 == IF f.minEmployees # Undefined THEN 1 ELSE 0
      n2 == n1 + (IF f.maxEmployees # Undefined THEN 1 ELSE 0)
      n3 == n2 + 1
  IN  (IF f.minEmployees # Undefined
       THEN <<[text |-> column \o " >= " \o Ph(n1), val |-> f.minEmployees]>>
       ELSE <<>>)
      \o (IF f.maxEmployees # Undefined
          THEN <<[text |-> column \o " <= " \o Ph(n2), val |-> f.maxEmployees]>>
          ELSE <<>>)
      \o (IF Truthy(f.nameLike)
          THEN <<[text |-> "name ILIKE " \o Ph(n3),
                  val |-> Str("%" \o JsToString(f.nameLike) \o "%")]>>
          ELSE <<>>)

\* Whether the companies filter last built is the expected one, with the
\* employee count named `column`.
CompanyFilterIs(column) ==
  (filterCall.op \in CompanyFilterOps /\ filterCall.builderCalls = 1) =>
    LET expected == ExpectedCompanyPredicates(filterCall.searchFilters, column)
        preds == Predicates(filterCall.where)
    IN  /\ Len(preds) = Len(expected)
        /\ \A k \in 1..Len(expected) : Render(preds[k]) = expected[k].text
        /\ filterCall.vals = [k \in 1..Len(expected) |-> expected[k].val]
        /\ filterCall.where =
             (IF expected = <<>> THEN <<>>
              ELSE <<"WHERE ">> \o Join(preds, " AND "))

\* C12: the companies filter builder appends, in this order,
\* "num_employees >= $n" with the value pushed when minEmployees is present,
\* "num_employees <= $n" with the value pushed when maxEmployees is present,
\* and "name ILIKE $n" with "%<value>%" pushed when nameLike is truthy,
\* where n is the running 1-based index of the pushed value.
CompanyFilterPredicates == CompanyFilterIs("num_employees")

\* C12's case: all three criteria present.
CompanyFilterAllCriteria ==
  /\ filterCall.op = "Company._filterWhereBuilder"
  /\ filterCall.searchFilters =
       [minEmployees |-> Num(1), maxEmployees |-> Num(2), nameLike |-> Str("net")]
  /\ Render(filterCall.where)
       = "WHERE num_employees >= $1 AND num_employees <= $2 AND name ILIKE $3"
  /\ filterCall.vals = <<Num(1), Num(2), Str("%net%")>>

\* C12 as stated, with the employee count named numEmployees in the text.
CompanyFilterPredicatesCamelCase == CompanyFilterIs("numEmployees")

----------------------------------------------------------------------------
(* Properties of the middleware chain (SpecAuth). *)

\* The request's gate has run.
GateRan == req.pc \in {"handler", "done"}

\* The request's gate called next.
GatePassed ==
  req.pc = "handler" \/ (req.pc = "done" /\ req.err # "UnauthorizedError")

\* An identity is present: a token was verified and its payload stored.
IdentityPresent ==
  req.user.defined /\ req.header.kind = "signed" /\ req.user = req.header.payload

\* C6: a request passes ensureAdmin exactly when an identity is present and
\* its isAdmin is true; every other request ends with UnauthorizedError
\* and its handler does not run.
AdminOnlyGate ==
  (GateRan /\ req.route.gate = "ensureAdmin") =>
    /\ GatePassed <=> (IdentityPresent /\ req.user.isAdmin = Bool(TRUE))
    /\ ~GatePassed => (req.err = "UnauthorizedError" /\ req.called = "")
    /\ req.user.defined => IdentityPresent

\* C6's case: an admin's request reached the handler of an admin route.
AdminPassed ==
  /\ req.pc = "done"
  /\ req.route.name = "POST /companies"
  /\ req.user.isAdmin = Bool(TRUE)
  /\ req.called = "Company.create"

\* C7: a request passes ensureCorrectUserOrAdmin exactly when an identity
\* is present and it is an admin's or its username is the route's username
\* parameter; every other request ends with UnauthorizedError.
AdminOrSelfGate ==
  (GateRan /\ req.route.gate = "ensureCorrectUserOrAdmin") =>
    /\ GatePassed <=>
         (IdentityPresent
            /\ (req.user.isAdmin = Bool(TRUE)
                  \/ req.user.username = req.paramUsername))
    /\ ~GatePassed => (req.err = "UnauthorizedError" /\ req.called = "")
    /\ (req.user = User(Str("u1"), Bool(FALSE)) /\ req.paramUsername = Str("u1"))
         => GatePassed
    /\ (req.user = User(Str("u1"), Bool(FALSE)) /\ req.paramUsername = Str("u2"))
         => ~GatePassed

\* C7's case: the non-admin u1 reached the handler of its own user route.
SelfPassed ==
  /\ req.pc = "done"
  /\ req.route.gate = "ensureCorrectUserOrAdmin"
  /\ req.user = User(Str("u1"), Bool(FALSE))
  /\ req.paramUsername = Str("u1")
  /\ req.called = req.route.calls
  /\ req.called # ""

\* A header whose token fails verification.
Unverifiable == req.header.kind \in {"malformed", "badsig"}

\* What authenticateJWT does for a request with no Authorization header.
NoTokenResult == authenticateJWT(Header("absent", NoUser))

\* C8: a request whose token fails verification is treated as one with no
\* token: authenticateJWT throws nothing, stores no identity and calls next
\* once, and the request passes its route's gate exactly when the request
\* without a token does.
BadTokenAsNoToken ==
  (Unverifiable /\ req.pc \notin {"idle", "authenticateJWT"}) =>
    /\ req.nextCalls = 1 /\ NoTokenResult.next = 1
    /\ req.user = NoUser /\ NoTokenResult.user = NoUser
    /\ req.pc = "gate" => req.err = ""
    /\ req.pc = "handler" => req.err = ""
    /\ req.err # "" => req.pc = "done"
    /\ GateRan =>
         (GatePassed <=>
            GatePasses(req.route, NoTokenResult.user, req.paramUsername))

\* C8's case: a token naming an admin, signed with another key, was
\* rejected by an admin route.
ForgedAdminRejected ==
  /\ req.header = Header("badsig", User(Str("u1"), Bool(TRUE)))
  /\ req.route.gate = "ensureAdmin"
  /\ req.pc = "done"
  /\ req.err = "UnauthorizedError"

\* The routes that change companies or jobs, and every users route.
GatedRoutes ==
  UsersRoutes
    \cup {r \in CompaniesRoutes \cup JobsRoutes :
            r.calls \notin {"Company.findAll", "Company.get",
                            "Job.findAll", "Job.get"}}

\* C13: for every request to a gated route (POST/PATCH/DELETE on companies
\* and jobs, every users route) identity decoding runs first, then the
\* capability check, and the handler (schema validation and any data-layer
\* call) runs only if the check passed: a request whose check raised
\* UnauthorizedError is answered with no validation and no data-layer call.
\* A request whose handler waits at an await passed its check and its
\* validation before the call.
GateBeforeHandler ==
  /\ \A p \in BagToSet(parked) :
       LET q == p.q
       IN  /\ q.nextCalls = 1
           /\ q.user = authenticateJWT(q.header).user
           /\ GatePasses(q.route, q.user, q.paramUsername)
           /\ q.route.validates => q.bodyValid
           /\ q.err = ""
           /\ q.called = q.route.calls
  /\ req.route \in GatedRoutes =>
    LET passes == GatePasses(req.route, req.user, req.paramUsername)
    IN  /\ req.route.gate # "none"
        /\ req.pc = "authenticateJWT" =>
             (req.user = NoUser /\ req.err = "" /\ req.called = "")
        /\ req.pc \in {"gate", "handler", "done"} =>
             (req.nextCalls = 1 /\ req.user = authenticateJWT(req.header).user)
        /\ req.pc = "gate" => (req.err = "" /\ req.called = "")
        /\ req.pc = "handler" => (passes /\ req.err = "" /\ req.called = "")
        /\ req.pc = "done" =>
             IF passes
             THEN \/ req.called = req.route.calls
                  \/ /\ req.route.validates /\ ~req.bodyValid
                     /\ req.err = "BadRequestError"
                     /\ req.called = ""
             ELSE req.err = "UnauthorizedError" /\ req.called = ""

\* C13's case: a signed token of a user who is not an admin on an admin
\* route; the check has raised and the request is answered.
NonAdminStopped ==
  /\ req.route.name = "DELETE /companies/:handle"
  /\ req.header = Header("signed", User(Str("u1"), Bool(FALSE)))
  /\ req.user = User(Str("u1"), Bool(FALSE))
  /\ req.pc = "done"
  /\ req.err = "UnauthorizedError"
  /\ req.called = ""

----------------------------------------------------------------------------
(* Properties of the create family (SpecCreate). *)

\* C9: Job.create with a companyHandle no stored company has throws
\* NotFoundError and stores no job.
JobCreateMissingCompanyNotFound ==
  [][\A c \in Callers :
       (/\ procs'[c] # procs[c]
        /\ procs'[c].op = "Job.create"
        /\ procs'[c].pc = "done"
        /\ ~\E r \in companies : r.handle = procs'[c].data.companyHandle)
         => (procs'[c].err = "NotFoundError" /\ jobs' = jobs)]_vars

\* C10: under every interleaving of Company.create calls, a call that did
\* not store its company ended with BadRequestError.
CompanyCreateDuplicateBadRequest ==
  \A c \in Callers :
    (/\ procs[c].op = "Company.create"
     /\ procs[c].pc = "done"
     /\ ~procs[c].inserted)
      => procs[c].err = "BadRequestError"

----------------------------------------------------------------------------
(* Properties of registration (SpecRegister). *)

\* The routes whose handler calls User.register.
RegisteringRoutes == {r \in Routes : r.calls = "User.register"}

\* C16: every user created through the public POST /auth/register route is
\* registered with isAdmin = false, whatever isAdmin value or other fields
\* the body carries; a user whose isAdmin is anything else is created only
\* through POST /users, which is gated by ensureAdmin, by a request that
\* carries a verified admin identity.
RegisterNeverMakesAdmin ==
  [][/\ {r.name : r \in RegisteringRoutes} = {"POST /auth/register", "POST /users"}
     /\ \A r \in RegisteringRoutes :
          r.gate = (IF r.name = "POST /users" THEN "ensureAdmin" ELSE "none")
     /\ (registerCall' # registerCall
           /\ registerCall'.route = "POST /auth/register"
           /\ registerCall'.data # <<>>)
          => /\ JsGet(registerCall'.data, "isAdmin") = Bool(FALSE)
             /\ registerCall'.user.isAdmin \in {Bool(FALSE), Undefined}
     /\ \A u \in users' :
          (\A v \in users : v.username # u.username) =>
            /\ registerCall'.err = ""
            /\ registerCall'.user = User(u.username, u.is_admin)
            /\ registerCall'.route = "POST /auth/register"
                 => u.is_admin = Bool(FALSE)
            /\ u.is_admin # Bool(FALSE)
                 => /\ registerCall'.route = "POST /users"
                    /\ registerCall'.header.kind = "signed"
                    /\ registerCall'.header.payload.isAdmin = Bool(TRUE)]_vars

\* C16's case: a registration whose body asks for isAdmin true has created
\* the user, who is not an admin.
RegisteredAskingForAdmin ==
  /\ registerCall.route = "POST /auth/register"
  /\ registerCall.body =
       <<[key |-> "username", val |-> Str("u2")],
         [key |-> "firstName", val |-> Str("F")],
         [key |-> "isAdmin", val |-> Bool(TRUE)]>>
  /\ registerCall.err = ""
  /\ UserRow(Str("u2"), Str("F"), Bool(FALSE)) \in users
  /\ \A u \in users : u.username = Str("u2") => u.is_admin = Bool(FALSE)

=============================================================================
